---- MODULE Spec2Model ----
(***************************************************************************)
(* SwiftPay: the payout pipeline of web-dev-vishal/SwiftPay.               *)
(*                                                                         *)
(* One user account (lock:{user}, balance:{user}, the user document), the  *)
(* payout requests handled by the gateway (PayoutService.initiatePayout),  *)
(* the payout_queue with its consumer (MessageConsumer) and the settlement *)
(* handler (WorkerService.processPayoutMessage).  Every await of the code  *)
(* that touches Redis, MongoDB or RabbitMQ is one step.  Amounts and       *)
(* balances are counted in minor units.                                    *)
(***************************************************************************)
EXTENDS Integers, Sequences, FiniteSets, TLC

\* ------------------------------------------------------------------ bounds
MaxTx == 2
NumSlots == 2
MaxAmount == 2
MaxFaults == 1
MaxRedeliver == 1
MaxTtl == 2
MaxTokens == 3
MaxBalance == 4

\* the user's durable balance at the start, and the lock TTL in clock ticks
InitialBalance == 2
LockTtl == 1

\* Balances and amounts are counted in the smallest amount the request schema
\* admits (precision 2: one hundredth); Unit of them make one currency unit.
Unit == 2

\* ------------------------------------------------------- program constants
LockRetryCount == 3
MaxRetryAttempts == 3

Txs == 1..MaxTx
Slots == 1..NumSlots
Amounts == 1..MaxAmount

\* sockets, gateway instances and users of the WebSocket side
NumSessions == 2
NumGateways == 2
NumUsers == 2
\* requests counted beyond the limit
MaxOver == 1
MaxPublished == 2
\* createUserRateLimiter: max requests per window
UserRateLimitMax == 10
\* createRateLimiter: max requests per window when RATE_LIMIT_MAX_REQUESTS is unset
RateLimitMax == 100

\* ------------------------------------------------------------------- state
VARIABLES
  lock,      \* Redis key lock:{user}
  cache,     \* Redis key balance:{user}
  user,      \* the user document
  store,     \* the transactions collection, by request
  gw,        \* the initiatePayout call of each request
  queue,     \* payout_queue: messages ready for delivery
  dlq,       \* payout_dlq
  wk,        \* the handleMessage call of each consumer slot
  events,    \* the events emitted to the user's room, by transaction
  ledger,    \* per transaction: scripted deductions, credits, markAsCompleted calls,
             \* handler invocations
  faults,    \* infrastructure errors thrown so far
  redelivered, \* broker redeliveries so far
  scenario,  \* what the environment does in this run: requests, errors, redeliveries
  nextToken, \* number of lock values generated (service specification)
  lastCall,  \* the last service call and what it returned (service specification)
  auditLog,  \* the auditlogs collection: entries written, writes that failed
  sess,      \* the sockets: connection state, gateway instance, userId, rooms
  clients,   \* WebSocketServer.clients of each gateway instance
  lastEmit,  \* the last event emitted to a user's room and the sockets it reached
  rl,        \* Redis keys rl:user:{key}: hits in the current window
  reached,   \* createPayout calls per key in the current window
  lastResponse, \* the answer to the last POST /api/payout
  qry,       \* the getUserBalance call of a balance query
  mc,        \* the handleMessage call of the consumer and its channel calls
  chan       \* payout_queue as the consumer sees it, and the pending timers

vars == <<lock, cache, user, store, gw, queue, dlq, wk, events, ledger,
          faults, redelivered, scenario, nextToken, lastCall, auditLog,
          sess, clients, lastEmit, rl, reached, lastResponse, qry, mc, chan>>

\* the WebSocket side, the rate limiter and the balance query, which the payout
\* steps never touch
edgeVars == <<sess, clients, lastEmit, rl, reached, lastResponse, qry, mc, chan>>

NoLock == [held |-> FALSE, val |-> 0, ttl |-> 0]
NoBalance == [present |-> FALSE, val |-> 0]
NoCall == [op |-> "none", arg |-> 0, ttl |-> 0, lockBefore |-> NoLock, lockAfter |-> NoLock,
           cacheBefore |-> NoBalance, cacheAfter |-> NoBalance, result |-> 0,
           code |-> "none",
           prevOp |-> "none", prevArg |-> 0, prevCode |-> "none",
           prevBefore |-> NoBalance]

\* ------------------------------------------------------------ Lock Service
\* mutant: SET without NX
LockAcquireNoNX(l, token, ttl) ==
  [lock |-> [held |-> TRUE, val |-> token, ttl |-> ttl], result |-> token]

\* redis.set(lockKey, lockValue, 'PX', ttl, 'NX')
LockAcquire(l, token, ttl) ==
  IF l.held
    THEN [lock |-> l, result |-> 0]
    ELSE [lock |-> [held |-> TRUE, val |-> token, ttl |-> ttl], result |-> token]

\* mutant: DEL without comparing the stored value
LockReleaseAnyHolder(l, token) ==
  IF l.held
    THEN [lock |-> NoLock, result |-> TRUE]
    ELSE [lock |-> l, result |-> FALSE]

\* compare-and-delete script
LockRelease(l, token) ==
  IF l.held /\ l.val = token
    THEN [lock |-> NoLock, result |-> TRUE]
    ELSE [lock |-> l, result |-> FALSE]

\* compare-and-pexpire script
LockExtend(l, token, ttl) ==
  IF l.held /\ l.val = token
    THEN [lock |-> [l EXCEPT !.ttl = ttl], result |-> TRUE]
    ELSE [lock |-> l, result |-> FALSE]

\* this.redis.del(`lock:${userId}`)
RedisDel(l) == NoLock

\* ----------------------------------------------------------- Balance Cache
\* What eval hands back for a script's `return new_balance`: Redis converts a Lua
\* number to an integer reply, dropping the fraction of the currency unit.
IntegerReply(x) == (x \div Unit) * Unit

\* getBalance: null or the parsed value
GetBalance(c) == c

\* mutant: the script without its current < amount branch
DeductBalanceUnchecked(c, amount) ==
  IF ~c.present
    THEN [cache |-> c, result |-> "BALANCE_NOT_FOUND", newBalance |-> 0]
    ELSE [cache |-> [present |-> TRUE, val |-> c.val - amount], result |-> "ok",
          newBalance |-> IntegerReply(c.val - amount)]

\* deductBalance's script and the mapping of its sentinels
DeductBalance(c, amount) ==
  IF ~c.present
    THEN [cache |-> c, result |-> "BALANCE_NOT_FOUND", newBalance |-> 0]
    ELSE IF c.val < amount
      THEN [cache |-> c, result |-> "INSUFFICIENT_BALANCE", newBalance |-> 0]
      ELSE [cache |-> [present |-> TRUE, val |-> c.val - amount], result |-> "ok",
            newBalance |-> IntegerReply(c.val - amount)]

\* mutant: the script treating an absent key as a balance of zero
AddBalanceToAbsent(c, amount) ==
  [cache |-> [present |-> TRUE, val |-> c.val + amount], result |-> "ok",
   newBalance |-> IntegerReply(c.val + amount)]

\* addBalance's script
AddBalance(c, amount) ==
  IF ~c.present
    THEN [cache |-> c, result |-> "BALANCE_NOT_FOUND", newBalance |-> 0]
    ELSE [cache |-> [present |-> TRUE, val |-> c.val + amount], result |-> "ok",
          newBalance |-> IntegerReply(c.val + amount)]

HasSufficientBalance(c, amount) == c.present /\ c.val >= amount

\* syncBalance -> initializeBalance: unconditional SET
SyncBalance(c, balance) == [present |-> TRUE, val |-> balance]

DeleteBalance(c) == NoBalance

\* ------------------------------------------------------------------- Init
NoTx == [status |-> "none", amount |-> 0, balanceBefore |-> 0, balanceAfter |-> 0]
NoResponse == [code |-> "none", statusCode |-> 0]
IdleGw == [pc |-> "idle", amount |-> 0, lockValue |-> 0, attempts |-> 0,
           userBalance |-> 0, balance |-> 0, err |-> "none", response |-> NoResponse]
NoMsg == [tx |-> 0, retry |-> 0]
IdleWk == [pc |-> "idle", msg |-> NoMsg, status |-> "none", currentBalance |-> 0,
           newBalance |-> 0, err |-> "none"]
NoAudit == [written |-> 0, failed |-> 0]
NoLedger == [deducts |-> 0, credits |-> 0, completes |-> 0, deliveries |-> 0]

\* The runs explored: MaxTx concurrent requests on a sound infrastructure, or one
\* request fewer with up to MaxFaults thrown infrastructure errors and MaxRedeliver
\* broker redeliveries, or no request and a message on payout_queue whose
\* transactionId has no record (poison message), or one request fewer with an
\* auditlogs collection whose writes may fail, or one request fewer and a
\* balance query.
Scenarios ==
  { [requests |-> MaxTx, faults |-> 0, redeliveries |-> 0, poison |-> FALSE,
     audit |-> FALSE, query |-> FALSE],
    [requests |-> MaxTx - 1, faults |-> MaxFaults, redeliveries |-> MaxRedeliver,
     poison |-> FALSE, audit |-> FALSE, query |-> FALSE],
    [requests |-> 0, faults |-> 0, redeliveries |-> 0, poison |-> TRUE,
     audit |-> FALSE, query |-> FALSE],
    [requests |-> MaxTx - 1, faults |-> 0, redeliveries |-> 0, poison |-> FALSE,
     audit |-> TRUE, query |-> FALSE],
    [requests |-> MaxTx - 1, faults |-> 0, redeliveries |-> 0, poison |-> FALSE,
     audit |-> FALSE, query |-> TRUE] }

PoisonMsg == [tx |-> 1, retry |-> 0]

\* ------------------------------------------------ sockets and rate limiter
Sessions == 1..NumSessions
Gateways == 1..NumGateways
Users == 1..NumUsers

\* a body without userId
NoUserId == 0

\* the room of a user: `user:${userId}`
UserRoom(u) == <<"user", u>>

\* the channels a subscribe message may name
Channels == {UserRoom(u) : u \in Users} \cup {<<"payouts", 0>>}

NoSession == [state |-> "new", gateway |-> 0, userId |-> NoUserId, rooms |-> {}]
NoEmit == [event |-> "none", userId |-> NoUserId, origin |-> 0, recipients |-> {}]

\* the limiter's key: req.body?.userId || req.ip (one client address)
KeyGenerator(userId) == IF userId # NoUserId THEN <<"userId", userId>> ELSE <<"ip", 0>>
Keys == {KeyGenerator(u) : u \in Users \cup {NoUserId}}
\* the global limiter's key: the client address, under the prefix rl:
GlobalKey == <<"rl", 0>>
NoAnswer == [key |-> <<"none", 0>>, code |-> "none", statusCode |-> 0, over |-> FALSE]
IdleQuery == [pc |-> "idle", balance |-> 0, code |-> "none"]
NoHeaders == [defined |-> FALSE, retry |-> 0]
NoDelivery == [id |-> 0, body |-> "none", headers |-> NoHeaders]
IdleConsumer == [pc |-> "idle", msg |-> NoDelivery, payload |-> FALSE,
                 returned |-> FALSE, acks |-> 0, nacks |-> 0, requeues |-> 0]
NoChannel == [ready |-> {}, timers |-> {}, published |-> 0]

EdgeInit ==
  /\ sess = [s \in Sessions |-> NoSession]
  /\ clients = [g \in Gateways |-> [u \in {} |-> {}]]
  /\ lastEmit = NoEmit
  /\ rl = [k \in Keys \cup {GlobalKey} |-> 0]
  /\ reached = [k \in Keys |-> 0]
  /\ lastResponse = NoAnswer
  /\ qry = IdleQuery
  /\ mc = IdleConsumer
  /\ chan = NoChannel

UserStatuses == {"active", "suspended", "closed", "none"}

Init ==
  /\ lock = NoLock
  /\ cache = NoBalance
  /\ \E st \in UserStatuses :
       user = [status |-> st, balance |-> InitialBalance, totalPayouts |-> 0,
               totalPayoutAmount |-> 0]
  /\ store = [t \in Txs |-> NoTx]
  /\ gw = [t \in Txs |-> IdleGw]
  /\ scenario \in Scenarios
  /\ queue = IF scenario.poison THEN {PoisonMsg} ELSE {}
  /\ dlq = {}
  /\ wk = [w \in Slots |-> IdleWk]
  /\ events = [t \in Txs |-> <<>>]
  /\ ledger = [t \in Txs |-> NoLedger]
  /\ faults = 0
  /\ redelivered = 0
  /\ nextToken = 0
  /\ lastCall = NoCall
  /\ auditLog = NoAudit
  /\ EdgeInit

\* what a step without a logAction call leaves alone, and what one with it does
serviceVars == <<scenario, nextToken, lastCall, auditLog, edgeVars>>
quietVars == <<scenario, nextToken, lastCall, edgeVars>>

\* ------------------------------------------------------------- Audit Log
\* mutant: logAction without its try/catch
LogActionUncaught(log, ok) ==
  [log |-> IF ok THEN [log EXCEPT !.written = @ + 1] ELSE [log EXCEPT !.failed = @ + 1],
   threw |-> ~ok]

\* AuditLog.logAction: this.create(...) inside try/catch, the error is printed
LogAction(log, ok) ==
  [log |-> IF ok THEN [log EXCEPT !.written = @ + 1] ELSE [log EXCEPT !.failed = @ + 1],
   threw |-> FALSE]

\* whether the insert into auditlogs succeeds
AuditWrites == IF scenario.audit THEN BOOLEAN ELSE {TRUE}

\* await AuditLog.logAction(...) in initiatePayout's try block, then go on
GwAudit(t, next) ==
  \E ok \in AuditWrites :
    LET r == LogAction(auditLog, ok) IN
      /\ auditLog' = r.log
      /\ gw' = IF r.threw THEN [gw EXCEPT ![t].pc = "catch", ![t].err = "AUDIT_ERROR"]
               ELSE next

\* await AuditLog.logAction(...) in processPayoutMessage's try block, then go on
WkAudit(w, next) ==
  \E ok \in AuditWrites :
    LET r == LogAction(auditLog, ok) IN
      /\ auditLog' = r.log
      /\ wk' = IF r.threw THEN [wk EXCEPT ![w].pc = "catch", ![w].err = "AUDIT_ERROR"]
               ELSE next

\* await AuditLog.logAction(...) where a throw would change nothing (inside a
\* try/catch of its own, or last before the error is rethrown)
AuditOnly ==
  \E ok \in AuditWrites : auditLog' = LogAction(auditLog, ok).log

\* --------------------------------------------- Gateway Intake: initiatePayout
\* generateLockValue: 128 random bits, a value no other acquisition draws
GenerateLockValue(t, attempt) == (t - 1) * LockRetryCount + attempt + 1

GwFail(t, code) == [gw EXCEPT ![t].pc = "catch", ![t].err = code]

\* messages of the errors the Redis and MongoDB clients throw when the server
\* cannot be reached, with and without the server's name in them
RedisErrors == {"Redis connection is closed", "Connection is closed."}
MongoErrors == {"MongoDB server selection timed out", "connect ECONNREFUSED"}
\* err.message.includes(word)
Includes(message, word) ==
  \/ word = "Redis" /\ message = "Redis connection is closed"
  \/ word = "MongoDB" /\ message = "MongoDB server selection timed out"

\* errorMap[error.message] || INTERNAL_ERROR: the object initiatePayout throws
ErrorMap(message) ==
  CASE message = "CONCURRENT_REQUEST_DETECTED" ->
         [code |-> "CONCURRENT_REQUEST", statusCode |-> 409,
          message |-> "Another payout request is being processed. Please wait."]
    [] message = "USER_NOT_FOUND" ->
         [code |-> "USER_NOT_FOUND", statusCode |-> 404, message |-> "User not found"]
    [] message = "USER_NOT_ACTIVE" ->
         [code |-> "USER_NOT_ACTIVE", statusCode |-> 403,
          message |-> "User account is not active"]
    [] message = "INSUFFICIENT_BALANCE" ->
         [code |-> "INSUFFICIENT_BALANCE", statusCode |-> 400,
          message |-> "Insufficient balance for this payout"]
    [] message = "FAILED_TO_PUBLISH_MESSAGE" ->
         [code |-> "QUEUE_ERROR", statusCode |-> 503,
          message |-> "Failed to queue payout request"]
    [] OTHER ->
         [code |-> "INTERNAL_ERROR", statusCode |-> 500,
          message |-> "An error occurred while processing your request"]

\* errorHandler: the checks on err.message, the later one winning, then the
\* error's own statusCode and code
ErrorHandler(e) ==
  IF Includes(e.message, "MongoDB") THEN [code |-> "DATABASE_ERROR", statusCode |-> 503]
  ELSE IF Includes(e.message, "RabbitMQ") THEN [code |-> "QUEUE_ERROR", statusCode |-> 503]
  ELSE IF Includes(e.message, "Redis") THEN [code |-> "CACHE_ERROR", statusCode |-> 503]
  ELSE [code |-> e.code, statusCode |-> e.statusCode]

\* POST /api/payout reaches initiatePayout with a validated body
Request(t, a) ==
  /\ gw[t].pc = "idle"
  /\ t <= scenario.requests
  /\ t > 1 => gw[t - 1].pc # "idle"
  /\ gw' = [gw EXCEPT ![t].pc = "acquire", ![t].amount = a]
  /\ UNCHANGED <<lock, cache, user, store, queue, dlq, wk, events, ledger,
                 faults, redelivered, serviceVars>>

\* mutant: a loop that tries once more than maxRetries
GwAcquireOneMore(t) ==
  /\ gw[t].pc = "acquire"
  /\ LET r == LockAcquire(lock, GenerateLockValue(t, gw[t].attempts), LockTtl) IN
       /\ lock' = r.lock
       /\ IF r.result # 0
            THEN GwAudit(t, [gw EXCEPT ![t].lockValue = r.result, ![t].pc = "findUser"])
            ELSE /\ auditLog' = auditLog
                 /\ gw' = IF gw[t].attempts < LockRetryCount
                            THEN [gw EXCEPT ![t].attempts = @ + 1]
                            ELSE [gw EXCEPT ![t].attempts = @ + 1, ![t].pc = "catch",
                                            ![t].err = "CONCURRENT_REQUEST_DETECTED"]
  /\ UNCHANGED <<cache, user, store, queue, dlq, wk, events, ledger,
                 faults, redelivered, quietVars>>

\* one round of acquireWithRetry's loop
GwAcquire(t) ==
  /\ gw[t].pc = "acquire"
  /\ LET r == LockAcquire(lock, GenerateLockValue(t, gw[t].attempts), LockTtl) IN
       /\ lock' = r.lock
       /\ IF r.result # 0
            THEN GwAudit(t, [gw EXCEPT ![t].lockValue = r.result, ![t].pc = "findUser"])
            ELSE /\ auditLog' = auditLog
                 /\ gw' = IF gw[t].attempts + 1 < LockRetryCount
                            THEN [gw EXCEPT ![t].attempts = @ + 1]
                            ELSE [gw EXCEPT ![t].attempts = @ + 1, ![t].pc = "catch",
                                            ![t].err = "CONCURRENT_REQUEST_DETECTED"]
  /\ UNCHANGED <<cache, user, store, queue, dlq, wk, events, ledger,
                 faults, redelivered, quietVars>>

\* User.findByUserId and the two checks on the document
GwFindUser(t) ==
  /\ gw[t].pc = "findUser"
  /\ gw' = IF user.status = "none" THEN GwFail(t, "USER_NOT_FOUND")
           ELSE IF user.status # "active" THEN GwFail(t, "USER_NOT_ACTIVE")
           ELSE [gw EXCEPT ![t].pc = "getBalance", ![t].userBalance = user.balance]
  /\ UNCHANGED <<lock, cache, user, store, queue, dlq, wk, events, ledger,
                 faults, redelivered, serviceVars>>

\* redisBalanceService.getBalance(userId)
GwGetBalance(t) ==
  /\ gw[t].pc = "getBalance"
  /\ \/ /\ faults < scenario.faults
        /\ faults' = faults + 1
        /\ \E message \in RedisErrors : gw' = GwFail(t, message)
     \/ /\ faults' = faults
        /\ gw' = IF GetBalance(cache).present
                   THEN [gw EXCEPT ![t].pc = "hasSufficient",
                                   ![t].balance = GetBalance(cache).val]
                   ELSE [gw EXCEPT ![t].pc = "sync"]
  /\ UNCHANGED <<lock, cache, user, store, queue, dlq, wk, events, ledger,
                 redelivered, serviceVars>>

\* syncBalance(userId, user.balance); balance = user.balance
GwSync(t) ==
  /\ gw[t].pc = "sync"
  /\ cache' = SyncBalance(cache, gw[t].userBalance)
  /\ gw' = [gw EXCEPT ![t].pc = "hasSufficient", ![t].balance = gw[t].userBalance]
  /\ UNCHANGED <<lock, user, store, queue, dlq, wk, events, ledger,
                 faults, redelivered, serviceVars>>

\* mutant: the message is sent before the transaction is inserted
GwHasSufficientPublishFirst(t) ==
  /\ gw[t].pc = "hasSufficient"
  /\ gw' = IF HasSufficientBalance(cache, gw[t].amount)
             THEN [gw EXCEPT ![t].pc = "create"]
             ELSE GwFail(t, "INSUFFICIENT_BALANCE")
  /\ queue' = IF HasSufficientBalance(cache, gw[t].amount)
                THEN queue \cup {[tx |-> t, retry |-> 0]}
                ELSE queue
  /\ UNCHANGED <<lock, cache, user, store, dlq, wk, events, ledger,
                 faults, redelivered, serviceVars>>

\* hasSufficientBalance(userId, roundedAmount)
GwHasSufficient(t) ==
  /\ gw[t].pc = "hasSufficient"
  /\ gw' = IF HasSufficientBalance(cache, gw[t].amount)
             THEN [gw EXCEPT ![t].pc = "create"]
             ELSE GwFail(t, "INSUFFICIENT_BALANCE")
  /\ UNCHANGED <<lock, cache, user, store, queue, dlq, wk, events, ledger,
                 faults, redelivered, serviceVars>>

\* Transaction.create({... status: 'initiated' ...})
GwCreate(t) ==
  /\ gw[t].pc = "create"
  /\ \/ /\ faults < scenario.faults
        /\ faults' = faults + 1
        /\ \E message \in MongoErrors : gw' = GwFail(t, message)
        /\ UNCHANGED <<store, auditLog>>
     \/ /\ faults' = faults
        /\ store' = [store EXCEPT ![t] = [status |-> "initiated", amount |-> gw[t].amount,
                                          balanceBefore |-> gw[t].balance,
                                          balanceAfter |-> gw[t].balance - gw[t].amount]]
        /\ GwAudit(t, [gw EXCEPT ![t].pc = "publish"])
  /\ UNCHANGED <<lock, cache, user, queue, dlq, wk, events, ledger,
                 redelivered, quietVars>>

\* publishPayoutMessage: sendToQueue answers true, or false on a full buffer
GwPublish(t) ==
  /\ gw[t].pc = "publish"
  /\ \E sent \in BOOLEAN :
       IF sent
         THEN /\ queue' = queue \cup {[tx |-> t, retry |-> 0]}
              /\ GwAudit(t, [gw EXCEPT ![t].pc = "emit"])
         ELSE /\ queue' = queue
              /\ gw' = GwFail(t, "FAILED_TO_PUBLISH_MESSAGE")
              /\ auditLog' = auditLog
  /\ UNCHANGED <<lock, cache, user, store, dlq, wk, events, ledger,
                 faults, redelivered, quietVars>>

\* websocketServer.emitPayoutInitiated, then return (202)
GwEmit(t) ==
  /\ gw[t].pc = "emit"
  /\ events' = [events EXCEPT ![t] = Append(@, "PAYOUT_INITIATED")]
  /\ gw' = [gw EXCEPT ![t].pc = "done",
                      ![t].response = [code |-> "none", statusCode |-> 202]]
  /\ UNCHANGED <<lock, cache, user, store, queue, dlq, wk, ledger,
                 faults, redelivered, serviceVars>>

\* mutant: the catch block without distributedLock.release
GwCatchNoRelease(t) ==
  /\ gw[t].pc = "catch"
  /\ gw' = [gw EXCEPT ![t].pc = "error"]
  /\ UNCHANGED <<lock, cache, user, store, queue, dlq, wk, events, ledger,
                 faults, redelivered, serviceVars>>

\* the catch block: release the lock if one was taken and log it, then throw the
\* mapped error, which createPayout passes to errorHandler
GwCatch(t) ==
  /\ gw[t].pc = "catch"
  /\ IF gw[t].lockValue # 0
       THEN /\ lock' = LockRelease(lock, gw[t].lockValue).lock
            /\ \E ok \in AuditWrites :
                 LET r == LogAction(auditLog, ok) IN
                   /\ auditLog' = r.log
                   /\ gw' = IF r.threw
                              THEN [gw EXCEPT ![t].pc = "error", ![t].err = "AUDIT_ERROR",
                                     ![t].response = [code |-> "INTERNAL_ERROR",
                                                      statusCode |-> 500]]
                              ELSE [gw EXCEPT ![t].pc = "error",
                                     ![t].response = ErrorHandler(ErrorMap(gw[t].err))]
       ELSE /\ UNCHANGED <<lock, auditLog>>
            /\ gw' = [gw EXCEPT ![t].pc = "error",
                                ![t].response = ErrorHandler(ErrorMap(gw[t].err))]
  /\ UNCHANGED <<cache, user, store, queue, dlq, wk, events, ledger,
                 faults, redelivered, quietVars>>

\* the PX expiry of lock:{user} runs down
Tick ==
  /\ lock.held
  /\ lock' = IF lock.ttl > 1 THEN [lock EXCEPT !.ttl = @ - 1] ELSE NoLock
  /\ UNCHANGED <<cache, user, store, gw, queue, dlq, wk, events, ledger,
                 faults, redelivered, serviceVars>>

Gateway ==
  \/ \E t \in Txs, a \in Amounts : Request(t, a)
  \/ \E t \in Txs : GwAcquire(t)
  \/ \E t \in Txs : GwFindUser(t)
  \/ \E t \in Txs : GwGetBalance(t)
  \/ \E t \in Txs : GwSync(t)
  \/ \E t \in Txs : GwHasSufficient(t)
  \/ \E t \in Txs : GwCreate(t)
  \/ \E t \in Txs : GwPublish(t)
  \/ \E t \in Txs : GwEmit(t)
  \/ \E t \in Txs : GwCatch(t)

\* ------------------------------------------------- Consumer and Settlement
Amount(m) == gw[m.tx].amount

\* mutant: INSUFFICIENT_BALANCE is not among the errors exempt from the rollback
BusinessErrorsNoInsufficient == {"TRANSACTION_NOT_FOUND", "ALREADY_PROCESSING"}

BusinessErrors == {"TRANSACTION_NOT_FOUND", "ALREADY_PROCESSING", "INSUFFICIENT_BALANCE"}

WkThrow(w, code) == [wk EXCEPT ![w].pc = "catch", ![w].err = code]

\* emitWebSocketEvent publishes on websocket:events; setupWebSocketBridge relays each
\* message, in channel order, to the user's room
Publish(t, ev) == [events EXCEPT ![t] = Append(@, ev)]

\* the broker hands a ready message to a free consumer slot (handleMessage); the
\* slots are interchangeable, so the lowest free one takes it
Deliver(w) ==
  /\ wk[w].pc = "idle"
  /\ \A v \in Slots : v < w => wk[v].pc # "idle"
  /\ \E m \in queue :
       /\ queue' = queue \ {m}
       /\ wk' = [wk EXCEPT ![w] = [IdleWk EXCEPT !.pc = "find", !.msg = m]]
       /\ ledger' = [ledger EXCEPT ![m.tx].deliveries = @ + 1]
  /\ UNCHANGED <<lock, cache, user, store, gw, dlq, events,
                 faults, redelivered, serviceVars>>

\* the broker delivers an unacknowledged message again while its handler still
\* runs; the copy is queued as early as possible, its delivery may come at any
\* later time
Redeliver(w) ==
  /\ wk[w].pc = "find"
  /\ redelivered < scenario.redeliveries
  /\ wk[w].msg \notin queue
  /\ queue' = queue \cup {wk[w].msg}
  /\ redelivered' = redelivered + 1
  /\ UNCHANGED <<lock, cache, user, store, gw, dlq, wk, events, ledger,
                 faults, serviceVars>>

\* Transaction.findByTransactionId and the idempotency checks on the loaded document;
\* a completed transaction returns, and handleMessage acks
WkFind(w) ==
  /\ wk[w].pc = "find"
  /\ LET st == store[wk[w].msg.tx].status IN
       wk' = IF st = "none" THEN WkThrow(w, "TRANSACTION_NOT_FOUND")
             ELSE IF st = "completed" THEN [wk EXCEPT ![w] = IdleWk]
             ELSE IF st = "processing"
               THEN [wk EXCEPT ![w].pc = "catch", ![w].err = "ALREADY_PROCESSING",
                               ![w].status = st]
             ELSE [wk EXCEPT ![w].pc = "markProcessing", ![w].status = st]
  /\ UNCHANGED <<lock, cache, user, store, gw, queue, dlq, events, ledger,
                 faults, redelivered, serviceVars>>

\* transaction.markAsProcessing(), logAction, then
\* emitWebSocketEvent(.., 'PAYOUT_PROCESSING', ..)
WkMarkProcessing(w) ==
  /\ wk[w].pc = "markProcessing"
  /\ store' = [store EXCEPT ![wk[w].msg.tx].status = "processing"]
  /\ \E ok \in AuditWrites :
       LET r == LogAction(auditLog, ok) IN
         /\ auditLog' = r.log
         /\ IF r.threw
              THEN /\ events' = events
                   /\ wk' = [wk EXCEPT ![w].pc = "catch", ![w].err = "AUDIT_ERROR",
                                       ![w].status = "processing"]
              ELSE /\ events' = Publish(wk[w].msg.tx, "PAYOUT_PROCESSING")
                   /\ wk' = [wk EXCEPT ![w].pc = "getBalance", ![w].status = "processing"]
  /\ UNCHANGED <<lock, cache, user, gw, queue, dlq, ledger,
                 faults, redelivered, quietVars>>

\* balanceService.getBalance(userId) and the two checks on its value
WkGetBalance(w) ==
  /\ wk[w].pc = "getBalance"
  /\ \/ /\ faults < scenario.faults
        /\ faults' = faults + 1
        /\ wk' = WkThrow(w, "CACHE_ERROR")
     \/ /\ faults' = faults
        /\ wk' = IF ~GetBalance(cache).present THEN WkThrow(w, "BALANCE_NOT_FOUND")
                 ELSE IF GetBalance(cache).val < Amount(wk[w].msg)
                   THEN WkThrow(w, "INSUFFICIENT_BALANCE")
                 ELSE [wk EXCEPT ![w].pc = "deduct",
                                 ![w].currentBalance = GetBalance(cache).val]
  /\ UNCHANGED <<lock, cache, user, store, gw, queue, dlq, events, ledger,
                 redelivered, serviceVars>>

\* balanceService.deductBalance(userId, amount), then logAction
WkDeduct(w) ==
  /\ wk[w].pc = "deduct"
  /\ LET r == DeductBalance(cache, Amount(wk[w].msg)) IN
       /\ cache' = r.cache
       /\ IF r.result = "ok"
            THEN /\ WkAudit(w, [wk EXCEPT ![w].pc = "markCompleted",
                                          ![w].newBalance = r.newBalance])
                 /\ ledger' = [ledger EXCEPT ![wk[w].msg.tx].deducts = @ + 1]
            ELSE /\ wk' = WkThrow(w, r.result)
                 /\ UNCHANGED <<ledger, auditLog>>
  /\ UNCHANGED <<lock, user, store, gw, queue, dlq, events,
                 faults, redelivered, quietVars>>

\* transaction.balanceAfter = newBalance; transaction.markAsCompleted()
WkMarkCompleted(w) ==
  /\ wk[w].pc = "markCompleted"
  /\ \/ /\ faults < scenario.faults
        /\ faults' = faults + 1
        /\ wk' = WkThrow(w, "DATABASE_ERROR")
        /\ UNCHANGED <<store, ledger>>
     \/ /\ faults' = faults
        /\ store' = [store EXCEPT ![wk[w].msg.tx].status = "completed",
                                  ![wk[w].msg.tx].balanceAfter = wk[w].newBalance]
        /\ ledger' = [ledger EXCEPT ![wk[w].msg.tx].completes = @ + 1]
        /\ wk' = [wk EXCEPT ![w].pc = "updateUser", ![w].status = "completed"]
  /\ UNCHANGED <<lock, cache, user, gw, queue, dlq, events,
                 redelivered, serviceVars>>

\* User.updateOne({userId}, {$set: {balance}, $inc: {...}})
WkUpdateUser(w) ==
  /\ wk[w].pc = "updateUser"
  /\ user' = [user EXCEPT !.balance = wk[w].newBalance,
                          !.totalPayouts = @ + 1,
                          !.totalPayoutAmount = @ + Amount(wk[w].msg)]
  /\ wk' = [wk EXCEPT ![w].pc = "delLock"]
  /\ UNCHANGED <<lock, cache, store, gw, queue, dlq, events, ledger,
                 faults, redelivered, serviceVars>>

\* this.redis.del(`lock:${userId}`) and logAction, in a try/catch of their own
WkDelLock(w) ==
  /\ wk[w].pc = "delLock"
  /\ lock' = RedisDel(lock)
  /\ AuditOnly
  /\ wk' = [wk EXCEPT ![w].pc = "emitCompleted"]
  /\ UNCHANGED <<cache, user, store, gw, queue, dlq, events, ledger,
                 faults, redelivered, quietVars>>

\* emitWebSocketEvent(userId, 'PAYOUT_COMPLETED', ...), logAction; the handler
\* returns and handleMessage acks
WkEmitCompleted(w) ==
  /\ wk[w].pc = "emitCompleted"
  /\ events' = Publish(wk[w].msg.tx, "PAYOUT_COMPLETED")
  /\ WkAudit(w, [wk EXCEPT ![w] = IdleWk])
  /\ UNCHANGED <<lock, cache, user, store, gw, queue, dlq, ledger,
                 faults, redelivered, quietVars>>

\* catch: the compensating addBalance unless the error is one of the three named,
\* and logAction after it, in a try/catch of their own
WkRollback(w) ==
  /\ wk[w].pc = "catch"
  /\ IF wk[w].err \notin BusinessErrors
       THEN LET r == AddBalance(cache, Amount(wk[w].msg)) IN
              /\ cache' = r.cache
              /\ IF r.result = "ok"
                   THEN /\ ledger' = [ledger EXCEPT ![wk[w].msg.tx].credits = @ + 1]
                        /\ AuditOnly
                   ELSE UNCHANGED <<ledger, auditLog>>
       ELSE UNCHANGED <<cache, ledger, auditLog>>
  /\ wk' = [wk EXCEPT ![w].pc = "markFailed"]
  /\ UNCHANGED <<lock, user, store, gw, queue, dlq, events,
                 faults, redelivered, quietVars>>

\* mutant: a catch block that leaves the transaction as it is
WkMarkFailedSkipped(w) ==
  /\ wk[w].pc = "markFailed"
  /\ wk' = [wk EXCEPT ![w].pc = "handleFailure"]
  /\ UNCHANGED <<lock, cache, user, store, gw, queue, dlq, events, ledger,
                 faults, redelivered, serviceVars>>

\* if (transaction) transaction.markAsFailed(error)
WkMarkFailed(w) ==
  /\ wk[w].pc = "markFailed"
  /\ store' = IF wk[w].status # "none"
                THEN [store EXCEPT ![wk[w].msg.tx].status = "failed"]
                ELSE store
  /\ wk' = [wk EXCEPT ![w].pc = "handleFailure"]
  /\ UNCHANGED <<lock, cache, user, gw, queue, dlq, events, ledger,
                 faults, redelivered, serviceVars>>

\* mutant: handleFailure comparing the header itself with maxRetries
WkHandleFailureOneMore(w) ==
  /\ wk[w].pc = "handleFailure"
  /\ events' = Publish(wk[w].msg.tx, "PAYOUT_FAILED")
  /\ queue' = IF wk[w].msg.retry <= MaxRetryAttempts
                THEN queue \cup {[tx |-> wk[w].msg.tx, retry |-> wk[w].msg.retry + 1]}
                ELSE queue
  /\ dlq' = dlq \cup {wk[w].msg}
  /\ wk' = [wk EXCEPT ![w] = IdleWk]
  /\ UNCHANGED <<lock, cache, user, store, gw, ledger,
                 faults, redelivered, serviceVars>>

\* emitWebSocketEvent(.., 'PAYOUT_FAILED', ..); logAction; throw error; then
\* handleFailure: nack without requeue (the queue dead-letters to payout_dlq) and,
\* within the retry budget, sendToQueue of the same body with x-retry-count + 1
WkHandleFailure(w) ==
  /\ wk[w].pc = "handleFailure"
  /\ events' = Publish(wk[w].msg.tx, "PAYOUT_FAILED")
  /\ AuditOnly
  /\ LET retryCount == wk[w].msg.retry + 1 IN
       queue' = IF retryCount <= MaxRetryAttempts
                  THEN queue \cup {[tx |-> wk[w].msg.tx, retry |-> retryCount]}
                  ELSE queue
  /\ dlq' = dlq \cup {wk[w].msg}
  /\ wk' = [wk EXCEPT ![w] = IdleWk]
  /\ UNCHANGED <<lock, cache, user, store, gw, ledger,
                 faults, redelivered, quietVars>>

\* ------------------------------------------- Balance query: getUserBalance
\* what a step of getUserBalance leaves alone besides the cache
queryFrame == <<lock, user, store, gw, queue, dlq, wk, events, ledger, faults,
                redelivered, scenario, nextToken, lastCall, auditLog,
                sess, clients, lastEmit, rl, reached, lastResponse, mc, chan>>

\* GET /api/payout/user/:userId/balance reaches getUserBalance
QueryStart ==
  /\ scenario.query
  /\ qry.pc = "idle"
  /\ qry' = [qry EXCEPT !.pc = "getBalance"]
  /\ UNCHANGED <<cache, queryFrame>>

\* redisBalanceService.getBalance(userId): a cached balance is the answer
QueryGetBalance ==
  /\ qry.pc = "getBalance"
  /\ qry' = IF GetBalance(cache).present
              THEN [pc |-> "done", balance |-> GetBalance(cache).val, code |-> "success"]
              ELSE [qry EXCEPT !.pc = "findUser"]
  /\ UNCHANGED <<cache, queryFrame>>

\* User.findByUserId(userId); balance = user.balance
QueryFindUser ==
  /\ qry.pc = "findUser"
  /\ qry' = IF user.status = "none"
              THEN [pc |-> "done", balance |-> 0, code |-> "USER_NOT_FOUND"]
              ELSE [qry EXCEPT !.pc = "sync", !.balance = user.balance]
  /\ UNCHANGED <<cache, queryFrame>>

\* syncBalance(userId, balance), then the answer
QuerySync ==
  /\ qry.pc = "sync"
  /\ cache' = SyncBalance(cache, qry.balance)
  /\ qry' = [qry EXCEPT !.pc = "done", !.code = "success"]
  /\ UNCHANGED queryFrame

Query == QueryStart \/ QueryGetBalance \/ QueryFindUser \/ QuerySync

Worker ==
  \/ \E w \in Slots : Deliver(w)
  \/ \E w \in Slots : Redeliver(w)
  \/ \E w \in Slots : WkFind(w)
  \/ \E w \in Slots : WkMarkProcessing(w)
  \/ \E w \in Slots : WkGetBalance(w)
  \/ \E w \in Slots : WkDeduct(w)
  \/ \E w \in Slots : WkMarkCompleted(w)
  \/ \E w \in Slots : WkUpdateUser(w)
  \/ \E w \in Slots : WkDelLock(w)
  \/ \E w \in Slots : WkEmitCompleted(w)
  \/ \E w \in Slots : WkRollback(w)
  \/ \E w \in Slots : WkMarkFailed(w)
  \/ \E w \in Slots : WkHandleFailure(w)

Next == Gateway \/ Worker \/ Tick \/ Query

Spec == Init /\ [][Next]_vars

\* the steps of a request already received, which the gateway process takes
\* as long as it does not crash
GatewayProgress ==
  \E t \in Txs :
    \/ GwAcquire(t) \/ GwFindUser(t) \/ GwGetBalance(t) \/ GwSync(t)
    \/ GwHasSufficient(t) \/ GwCreate(t) \/ GwPublish(t) \/ GwEmit(t)
    \/ GwCatch(t)

\* the broker's delivery of a queued message and the steps of a running
\* handler, which the worker process takes as long as it does not crash
WorkerProgress ==
  \E w \in Slots :
    \/ Deliver(w) \/ WkFind(w) \/ WkMarkProcessing(w) \/ WkGetBalance(w)
    \/ WkDeduct(w) \/ WkMarkCompleted(w) \/ WkUpdateUser(w) \/ WkDelLock(w)
    \/ WkEmitCompleted(w) \/ WkRollback(w) \/ WkMarkFailed(w)
    \/ WkHandleFailure(w)

\* fair scheduling: a process that can take a step eventually takes one; new
\* requests, broker redeliveries, queries and the lock's expiry may or may not
\* come
LiveSpec == Init /\ [][Next]_vars /\ WF_vars(GatewayProgress \/ WorkerProgress)

\* ------------------------------------------------------------------------
\* The Lock Service and the Balance Cache on their own: any callers, any order of
\* calls, any token, ttl, amount and balance within the bounds.  Each call is one
\* Redis command or script, so concurrent callers are a sequence of calls.
ServiceInit ==
  /\ lock = NoLock
  /\ cache = NoBalance
  /\ user = [status |-> "active", balance |-> InitialBalance, totalPayouts |-> 0,
             totalPayoutAmount |-> 0]
  /\ store = [t \in Txs |-> NoTx]
  /\ gw = [t \in Txs |-> IdleGw]
  /\ queue = {}
  /\ dlq = {}
  /\ wk = [w \in Slots |-> IdleWk]
  /\ events = [t \in Txs |-> <<>>]
  /\ ledger = [t \in Txs |-> NoLedger]
  /\ faults = 0
  /\ redelivered = 0
  /\ scenario = [requests |-> 0, faults |-> 0, redeliveries |-> 0, poison |-> FALSE,
                 audit |-> FALSE, query |-> FALSE]
  /\ nextToken = 0
  /\ lastCall = NoCall
  /\ auditLog = NoAudit
  /\ EdgeInit

protocolVars == <<user, store, gw, queue, dlq, wk, events, ledger, faults, redelivered,
                  scenario, auditLog, edgeVars>>

Tokens == 1..MaxTokens
Ttls == 1..MaxTtl
Balances == 0..MaxBalance

LockCall(op, token, ttl, r) ==
  [NoCall EXCEPT !.op = op, !.arg = token, !.ttl = ttl, !.lockBefore = lock,
                 !.lockAfter = r.lock, !.result = r.result, !.prevOp = lastCall.op]

\* DistributedLock.acquire(resource, ttl)
CallAcquire(ttl) ==
  /\ nextToken < MaxTokens
  /\ nextToken' = nextToken + 1
  /\ LET r == LockAcquire(lock, nextToken + 1, ttl) IN
       /\ lock' = r.lock
       /\ lastCall' = LockCall("acquire", nextToken + 1, ttl, r)
  /\ UNCHANGED <<cache, protocolVars>>

\* DistributedLock.release(resource, lockValue)
CallRelease(token) ==
  /\ LET r == LockRelease(lock, token) IN
       /\ lock' = r.lock
       /\ lastCall' = LockCall("release", token, 0, [lock |-> r.lock,
                                 result |-> IF r.result THEN 1 ELSE 0])
  /\ UNCHANGED <<cache, nextToken, protocolVars>>

\* DistributedLock.extend(resource, lockValue, additionalTtl)
CallExtend(token, ttl) ==
  /\ LET r == LockExtend(lock, token, ttl) IN
       /\ lock' = r.lock
       /\ lastCall' = LockCall("extend", token, ttl, [lock |-> r.lock,
                                 result |-> IF r.result THEN 1 ELSE 0])
  /\ UNCHANGED <<cache, nextToken, protocolVars>>

BalanceCall(op, arg, c, code, newBalance) ==
  [NoCall EXCEPT !.op = op, !.arg = arg, !.cacheBefore = cache, !.cacheAfter = c,
                 !.code = code, !.result = newBalance,
                 !.prevOp = lastCall.op, !.prevArg = lastCall.arg,
                 !.prevCode = lastCall.code, !.prevBefore = lastCall.cacheBefore]

\* RedisBalanceService.deductBalance(userId, amount)
CallDeduct(a) ==
  /\ LET r == DeductBalance(cache, a) IN
       /\ cache' = r.cache
       /\ lastCall' = BalanceCall("deduct", a, r.cache, r.result, r.newBalance)
  /\ UNCHANGED <<lock, nextToken, protocolVars>>

\* RedisBalanceService.addBalance(userId, amount)
CallAdd(a) ==
  /\ cache.present => cache.val + a <= MaxBalance
  /\ LET r == AddBalance(cache, a) IN
       /\ cache' = r.cache
       /\ lastCall' = BalanceCall("add", a, r.cache, r.result, r.newBalance)
  /\ UNCHANGED <<lock, nextToken, protocolVars>>

\* RedisBalanceService.syncBalance(userId, balance)
CallSync(b) ==
  /\ cache' = SyncBalance(cache, b)
  /\ lastCall' = BalanceCall("sync", b, SyncBalance(cache, b), "ok", b)
  /\ UNCHANGED <<lock, nextToken, protocolVars>>

\* RedisBalanceService.deleteBalance(userId)
CallDelete ==
  /\ cache' = DeleteBalance(cache)
  /\ lastCall' = BalanceCall("delete", 0, DeleteBalance(cache), "ok", 0)
  /\ UNCHANGED <<lock, nextToken, protocolVars>>

ServiceNext ==
  \/ \E ttl \in Ttls : CallAcquire(ttl)
  \/ \E token \in Tokens : CallRelease(token)
  \/ \E token \in Tokens, ttl \in Ttls : CallExtend(token, ttl)
  \/ \E a \in Amounts : CallDeduct(a)
  \/ \E a \in Amounts : CallAdd(a)
  \/ \E b \in Balances : CallSync(b)
  \/ CallDelete
  \/ Tick

ServiceSpec == ServiceInit /\ [][ServiceNext]_vars

\* ------------------------------------------------------------------------
\* The WebSocket servers of the gateway instances and the bridge from the
\* worker: sockets connect to an instance, send authenticate and subscribe
\* messages and disconnect; events are emitted to a user's room.
payoutVars == <<lock, cache, user, store, gw, queue, dlq, wk, events, ledger, faults,
                redelivered, scenario, nextToken, lastCall, auditLog, qry, mc, chan>>
limiterVars == <<rl, reached, lastResponse>>
socketVars == <<sess, clients, lastEmit>>

\* this.clients.get(userId), the empty set when the key is absent
Registered(g, u) == IF u \in DOMAIN clients[g] THEN clients[g][u] ELSE {}

IsUserConnected(g, u) == u \in DOMAIN clients[g] /\ Cardinality(clients[g][u]) > 0

\* the sockets of instance g in the room of user u
InRoom(g, u) ==
  {s \in Sessions : /\ sess[s].state = "connected"
                    /\ sess[s].gateway = g
                    /\ UserRoom(u) \in sess[s].rooms}

\* the connected sockets whose last authenticate message named user u
AuthenticatedAs(u) ==
  {s \in Sessions : sess[s].state = "connected" /\ sess[s].userId = u}

Connect(s, g) ==
  /\ sess[s].state = "new"
  /\ sess' = [sess EXCEPT ![s].state = "connected", ![s].gateway = g]
  /\ UNCHANGED <<clients, lastEmit, limiterVars, payoutVars>>

HandleAuthentication(s, u) ==
  /\ sess[s].state = "connected"
  /\ LET g == sess[s].gateway IN
       /\ sess' = [sess EXCEPT ![s].userId = u, ![s].rooms = @ \cup {UserRoom(u)}]
       /\ clients' = [clients EXCEPT ![g] =
            [k \in DOMAIN @ \cup {u} |->
               IF k = u THEN Registered(g, u) \cup {s} ELSE @[k]]]
  /\ UNCHANGED <<lastEmit, limiterVars, payoutVars>>

HandleSubscription(s, channel) ==
  /\ sess[s].state = "connected"
  /\ sess' = [sess EXCEPT ![s].rooms = @ \cup {channel}]
  /\ UNCHANGED <<clients, lastEmit, limiterVars, payoutVars>>

HandleDisconnection(s) ==
  /\ sess[s].state = "connected"
  /\ LET g == sess[s].gateway
         u == sess[s].userId IN
       IF u # NoUserId /\ u \in DOMAIN clients[g]
       THEN LET userSockets == clients[g][u] \ {s} IN
              clients' = [clients EXCEPT ![g] =
                IF Cardinality(userSockets) = 0
                THEN [k \in DOMAIN @ \ {u} |-> @[k]]
                ELSE [@ EXCEPT ![u] = userSockets]]
       ELSE UNCHANGED clients
  /\ sess' = [sess EXCEPT ![s].state = "closed", ![s].rooms = {}]
  /\ UNCHANGED <<lastEmit, limiterVars, payoutVars>>

\* io.to(`user:${userId}`).emit on instance g
EmitToUser(g, u) == InRoom(g, u)

\* the events the worker publishes, which are the cases of the bridge's switch
RelayedEvents == {"PAYOUT_PROCESSING", "PAYOUT_COMPLETED", "PAYOUT_FAILED"}

\* the worker publishes on websocket:events; every instance's subscriber
\* handles the message
BridgeRelay(u, event) ==
  /\ lastEmit' = [event |-> event, userId |-> u, origin |-> 0,
                  recipients |-> IF event \in RelayedEvents
                                 THEN UNION {EmitToUser(g, u) : g \in Gateways}
                                 ELSE {}]
  /\ UNCHANGED <<sess, clients, limiterVars, payoutVars>>

\* initiatePayout on instance g calls its own websocketServer
EmitPayoutInitiated(g, u) ==
  /\ lastEmit' = [event |-> "PAYOUT_INITIATED", userId |-> u, origin |-> g,
                  recipients |-> EmitToUser(g, u)]
  /\ UNCHANGED <<sess, clients, limiterVars, payoutVars>>

BridgeNext ==
  \/ \E s \in Sessions, g \in Gateways : Connect(s, g)
  \/ \E s \in Sessions, u \in Users : HandleAuthentication(s, u)
  \/ \E s \in Sessions, c \in Channels : HandleSubscription(s, c)
  \/ \E s \in Sessions : HandleDisconnection(s)
  \/ \E u \in Users, e \in RelayedEvents : BridgeRelay(u, e)
  \/ \E g \in Gateways, u \in Users : EmitPayoutInitiated(g, u)

BridgeSpec == ServiceInit /\ [][BridgeNext]_vars

\* ------------------------------------------------------------------------
\* POST /api/payout through its middleware: the global limiter of /api, the
\* per-user limiter, validation, and the controller.  A counter lives in Redis
\* for one window and is counted up to MaxOver beyond its limit.
Min(a, b) == IF a < b THEN a ELSE b

\* the store's increment: the hits of the key in its window, this one included
Increment(hits, max) == Min(hits + 1, max + MaxOver)

\* mutant: a limiter that admits one request more
LimitedOneMore(totalHits, max) == totalHits > max + 1

\* express-rate-limit answers with its handler once the hits exceed max
Limited(totalHits, max) == totalHits > max

Answer(userId, code, statusCode) ==
  [key |-> KeyGenerator(userId), code |-> code, statusCode |-> statusCode,
   over |-> rl[KeyGenerator(userId)] >= UserRateLimitMax]

PostPayout(userId) ==
  LET key == KeyGenerator(userId)
      globalHits == Increment(rl[GlobalKey], RateLimitMax)
      userHits == Increment(rl[key], UserRateLimitMax) IN
    /\ IF Limited(globalHits, RateLimitMax)
       THEN /\ rl' = [rl EXCEPT ![GlobalKey] = globalHits]
            /\ lastResponse' = Answer(userId, "RATE_LIMIT_EXCEEDED", 429)
            /\ UNCHANGED reached
       ELSE /\ rl' = [rl EXCEPT ![GlobalKey] = globalHits, ![key] = userHits]
            /\ IF Limited(userHits, UserRateLimitMax)
               THEN /\ lastResponse' = Answer(userId, "USER_RATE_LIMIT_EXCEEDED", 429)
                    /\ UNCHANGED reached
               ELSE IF userId = NoUserId
               THEN /\ lastResponse' = Answer(userId, "Validation failed", 400)
                    /\ UNCHANGED reached
               ELSE /\ lastResponse' = Answer(userId, "createPayout", 0)
                    /\ reached' = [reached EXCEPT ![key] = @ + 1]
    /\ UNCHANGED <<socketVars, payoutVars>>

\* the key of a limiter expires: its window is over
WindowExpire(k) ==
  /\ rl[k] > 0
  /\ rl' = [rl EXCEPT ![k] = 0]
  /\ reached' = IF k \in Keys THEN [reached EXCEPT ![k] = 0] ELSE reached
  /\ UNCHANGED <<lastResponse, socketVars, payoutVars>>

LimiterNext ==
  \/ \E userId \in Users \cup {NoUserId} : PostPayout(userId)
  \/ \E k \in Keys \cup {GlobalKey} : WindowExpire(k)

LimiterSpec == ServiceInit /\ [][LimiterNext]_vars

\* ------------------------------------------------ MessageConsumer alone
\* what the consumer's steps leave alone
consumerFrame == <<lock, cache, user, store, gw, queue, dlq, wk, events, ledger,
                   faults, redelivered, scenario, nextToken, lastCall, auditLog,
                   sess, clients, lastEmit, rl, reached, lastResponse, qry>>

\* msg.content: a JSON object, the JSON text null, or no JSON at all
Bodies == {"object", "null", "invalid"}
\* msg.properties.headers: undefined, or an object whose x-retry-count reads
\* as a number (an absent key reads as 0)
HeaderValues ==
  {NoHeaders} \cup {[defined |-> TRUE, retry |-> r] : r \in 0..MaxRetryAttempts}

\* some publisher puts a message on payout_queue
PublishMessage(body, headers) ==
  /\ chan.published < MaxPublished
  /\ chan' = [chan EXCEPT
               !.ready = @ \cup {[id |-> chan.published + 1, body |-> body,
                                  headers |-> headers]},
               !.published = @ + 1]
  /\ UNCHANGED <<mc, consumerFrame>>

\* the broker delivers msg: handleMessage(msg) starts
HandleMessage(msg) ==
  /\ mc.pc = "idle"
  /\ msg \in chan.ready
  /\ mc' = [IdleConsumer EXCEPT !.pc = "parse", !.msg = msg]
  /\ chan' = [chan EXCEPT !.ready = @ \ {msg}]
  /\ UNCHANGED consumerFrame

\* payload = JSON.parse(msg.content.toString())
McParse ==
  /\ mc.pc = "parse"
  /\ mc' = IF mc.msg.body = "invalid"
             THEN [mc EXCEPT !.pc = "handleFailure"]
             ELSE [mc EXCEPT !.pc = "log", !.payload = TRUE]
  /\ UNCHANGED <<chan, consumerFrame>>

\* logger.info(...) reads payload.transactionId and
\* msg.properties.headers['x-retry-count']: a TypeError on a null payload or
\* on undefined headers
McLog ==
  /\ mc.pc = "log"
  /\ mc' = IF mc.msg.body = "null" \/ ~mc.msg.headers.defined
             THEN [mc EXCEPT !.pc = "handleFailure"]
             ELSE [mc EXCEPT !.pc = "handler"]
  /\ UNCHANGED <<chan, consumerFrame>>

\* await this.handler(payload, msg): it returns or it throws
McHandler(returns) ==
  /\ mc.pc = "handler"
  /\ mc' = IF returns
             THEN [mc EXCEPT !.pc = "ack", !.returned = TRUE]
             ELSE [mc EXCEPT !.pc = "handleFailure"]
  /\ UNCHANGED <<chan, consumerFrame>>

\* this.channel.ack(msg)
McAck ==
  /\ mc.pc = "ack"
  /\ mc' = [mc EXCEPT !.pc = "settled", !.acks = @ + 1]
  /\ UNCHANGED <<chan, consumerFrame>>

\* the copy handleFailure re-publishes from its timer
Republished(msg, retryCount) ==
  [msg EXCEPT !.headers = [defined |-> TRUE, retry |-> retryCount]]

\* a handleFailure whose timer is set before the nack and throws after it
McHandleFailureNackInCatchToo ==
  /\ mc.pc = "handleFailure"
  /\ mc' = [mc EXCEPT !.pc = "failureCatch",
                      !.nacks = IF mc.msg.headers.defined THEN @ + 1 ELSE @]
  /\ UNCHANGED <<chan, consumerFrame>>

\* handleFailure's try block: reading the header of undefined headers throws;
\* otherwise one nack(msg, false, false), with a timer for the copy while
\* retryCount <= maxRetries
McHandleFailure ==
  /\ mc.pc = "handleFailure"
  /\ IF ~mc.msg.headers.defined
       THEN /\ mc' = [mc EXCEPT !.pc = "failureCatch"]
            /\ chan' = chan
       ELSE LET retryCount == mc.msg.headers.retry + 1
            IN /\ mc' = [mc EXCEPT !.pc = "settled", !.nacks = @ + 1]
               /\ chan' = IF retryCount <= MaxRetryAttempts
                            THEN [chan EXCEPT !.timers =
                                    @ \cup {Republished(mc.msg, retryCount)}]
                            ELSE chan
  /\ UNCHANGED consumerFrame

\* handleFailure's catch block: this.channel.nack(msg, false, false)
McFailureCatch ==
  /\ mc.pc = "failureCatch"
  /\ mc' = [mc EXCEPT !.pc = "settled", !.nacks = @ + 1]
  /\ UNCHANGED <<chan, consumerFrame>>

\* handleMessage's promise resolves
McReturn ==
  /\ mc.pc = "settled"
  /\ mc' = [mc EXCEPT !.pc = "idle"]
  /\ UNCHANGED <<chan, consumerFrame>>

\* the setTimeout callback: channel.sendToQueue('payout_queue', ...)
McTimer(msg) ==
  /\ msg \in chan.timers
  /\ chan' = [chan EXCEPT !.timers = @ \ {msg}, !.ready = @ \cup {msg}]
  /\ UNCHANGED <<mc, consumerFrame>>

ConsumerNext ==
  \/ \E body \in Bodies, headers \in HeaderValues : PublishMessage(body, headers)
  \/ \E msg \in chan.ready : HandleMessage(msg)
  \/ McParse
  \/ McLog
  \/ \E returns \in BOOLEAN : McHandler(returns)
  \/ McAck
  \/ McHandleFailure
  \/ McFailureCatch
  \/ McReturn
  \/ \E msg \in chan.timers : McTimer(msg)

ConsumerSpec == ServiceInit /\ [][ConsumerNext]_vars



\* ========================================================================
\* Properties
\* ========================================================================
RECURSIVE SumOver(_, _)
SumOver(S, f) ==
  IF S = {} THEN 0
  ELSE LET x == CHOOSE y \in S : TRUE IN f[x] + SumOver(S \ {x}, f)

\* 202 was returned for the request
Admitted(t) == gw[t].pc = "done"
\* admitted and not yet completed or failed
Advancing(t) == Admitted(t) /\ store[t].status \in {"initiated", "processing"}
\* the request is inside initiatePayout, after acquireWithRetry returned a lock value
PastAcquisition(t) == gw[t].lockValue # 0 /\ gw[t].pc \notin {"done", "error"}
HoldsLock(t) == gw[t].lockValue # 0 /\ lock.held /\ lock.val = gw[t].lockValue
NoSettlementInProgress == \A w \in Slots : wk[w].pc = "idle"
SumCompleted ==
  SumOver({t \in Txs : store[t].status = "completed"}, [t \in Txs |-> store[t].amount])

\* C1: at every moment at most one payout of the user is advancing (admitted with
\* 202 and neither completed nor failed yet).
C1_OnePayoutAdvancing == Cardinality({t \in Txs : Advancing(t)}) <= 1

C3_CompletedSumMatchesCache ==
  (NoSettlementInProgress /\ cache.present)
    => SumCompleted = InitialBalance - cache.val

\* C4: however often its message is delivered, a transaction's amount is deducted
\* (net of compensating credits) at most once and it is marked completed at most once.
C4_OneDeductionOneCompletion ==
  \A t \in Txs :
    /\ ledger[t].deducts - ledger[t].credits <= 1
    /\ ledger[t].completes <= 1

AllowedTransitions ==
  { <<"none", "initiated">>, <<"initiated", "processing">>,
    <<"processing", "completed">>, <<"initiated", "failed">>,
    <<"processing", "failed">> }

\* C5: a transaction's status changes only along initiated -> processing ->
\* completed or initiated|processing -> failed; completed and failed are final.
C5_StatusOnlyForward ==
  [][\A t \in Txs :
       store'[t].status # store[t].status
         => <<store[t].status, store'[t].status>> \in AllowedTransitions]_vars

\* C6: the cached balance is never negative, and a deductBalance call writes
\* current - amount exactly when current >= amount, and otherwise changes nothing
\* and reports INSUFFICIENT_BALANCE, or BALANCE_NOT_FOUND for an absent key.
C6_BalanceNeverNegative ==
  /\ cache.present => cache.val >= 0
  /\ lastCall.op = "deduct" =>
       LET b == lastCall.cacheBefore
           a == lastCall.arg
       IN IF ~b.present
            THEN lastCall.code = "BALANCE_NOT_FOUND" /\ lastCall.cacheAfter = b
            ELSE IF b.val >= a
              THEN /\ lastCall.code = "ok"
                   /\ lastCall.cacheAfter = [present |-> TRUE, val |-> b.val - a]
                   /\ lastCall.result = IntegerReply(b.val - a)
              ELSE lastCall.code = "INSUFFICIENT_BALANCE" /\ lastCall.cacheAfter = b

\* C6 witness: a deduction of more than a positive balance was refused.
C6_Witness ==
  /\ lastCall.op = "deduct"
  /\ lastCall.code = "INSUFFICIENT_BALANCE"
  /\ lastCall.cacheBefore.val > 0
  /\ cache = lastCall.cacheBefore

\* C7: lock:{user} is deleted by the worker's settlement or by the gateway's
\* failure path only when it holds the token of that payout's own acquisition.
C7_DeleteOnlyOwnLock ==
  [][/\ \A w \in Slots :
          (wk[w].pc = "delLock" /\ wk'[w].pc # "delLock" /\ lock.held)
            => lock.val = gw[wk[w].msg.tx].lockValue
     /\ \A t \in Txs :
          (gw[t].pc = "catch" /\ gw'[t].pc = "error" /\ lock.held /\ ~lock'.held)
            => lock.val = gw[t].lockValue]_vars

\* C8: release deletes the key and returns true iff the stored value equals the
\* token, and otherwise leaves value and expiry unchanged and returns false; extend
\* resets the expiry iff the stored value equals the token and otherwise changes
\* nothing.
C8_ReleaseExtendCompareToken ==
  LET b == lastCall.lockBefore
      own == b.held /\ b.val = lastCall.arg
  IN /\ lastCall.op = "release" =>
          IF own THEN lastCall.result = 1 /\ lastCall.lockAfter = NoLock
                 ELSE lastCall.result = 0 /\ lastCall.lockAfter = b
     /\ lastCall.op = "extend" =>
          IF own THEN /\ lastCall.result = 1
                      /\ lastCall.lockAfter = [held |-> TRUE, val |-> b.val,
                                               ttl |-> lastCall.ttl]
                 ELSE lastCall.result = 0 /\ lastCall.lockAfter = b

\* C8 witness: a release with the token of an earlier holder found a successor's
\* lock and left it in place.
C8_Witness ==
  /\ lastCall.op = "release"
  /\ lastCall.lockBefore.held
  /\ lastCall.arg < lastCall.lockBefore.val
  /\ lock = lastCall.lockBefore

\* C9: when a call of processPayoutMessage for an admitted payout ends, and when
\* initiatePayout has failed, lock:{user} no longer holds that payout's token.
C9_LockReleasedOnEveryExit ==
  /\ [][\A w \in Slots :
          (wk[w].pc # "idle" /\ wk'[w].pc = "idle" /\ Admitted(wk[w].msg.tx))
            => ~(lock'.held /\ lock'.val = gw[wk[w].msg.tx].lockValue)]_vars
  /\ [](\A t \in Txs : gw[t].pc = "error" => ~HoldsLock(t))

EventRank(ev) ==
  CASE ev = "PAYOUT_INITIATED" -> 1
    [] ev = "PAYOUT_PROCESSING" -> 2
    [] OTHER -> 3

\* C10: the events of a transaction reach the client in the order INITIATED,
\* PROCESSING, COMPLETED or FAILED.
C10_EventOrder ==
  \A t \in Txs :
    \A i, j \in 1..Len(events[t]) :
      i < j => EventRank(events[t][i]) <= EventRank(events[t][j])

\* the payout is settled: its transaction is completed or failed
Settled(t) == store[t].status \in {"completed", "failed"}

\* C11: two requests whose amounts each fit the cached balance but together exceed
\* it are never both admitted (202) while the first of them is not settled, the
\* second having been checked against the balance the first was checked against.
C11_NoDoubleAdmission ==
  \A t, u \in Txs :
    ~ /\ t # u
      /\ Admitted(t) /\ Admitted(u)
      /\ ~Settled(t) /\ ~Settled(u)
      /\ store[u].balanceBefore = store[t].balanceBefore
      /\ store[t].amount <= store[t].balanceBefore
      /\ store[u].amount <= store[u].balanceBefore
      /\ store[t].amount + store[u].amount > store[t].balanceBefore

GatewayRejections == {"USER_NOT_FOUND", "USER_NOT_ACTIVE", "INSUFFICIENT_BALANCE"}

\* C12: when initiatePayout has failed with USER_NOT_FOUND, USER_NOT_ACTIVE or
\* INSUFFICIENT_BALANCE, the lock it took is no longer held with its value, no
\* transaction record exists for the request, no message of it is on the queue,
\* with a worker or dead-lettered, and no event was emitted for it.
C12_RejectionLeavesNothing ==
  \A t \in Txs :
    (gw[t].pc = "error" /\ gw[t].err \in GatewayRejections) =>
      /\ gw[t].lockValue # 0
      /\ ~HoldsLock(t)
      /\ store[t] = NoTx
      /\ \A m \in queue \cup dlq : m.tx # t
      /\ \A w \in Slots : wk[w].msg.tx # t
      /\ events[t] = <<>>

\* C12 witness: a request was rejected with INSUFFICIENT_BALANCE after an earlier
\* payout of the user had been completed.
C12_Witness ==
  \E t, u \in Txs :
    /\ gw[t].pc = "error" /\ gw[t].err = "INSUFFICIENT_BALANCE"
    /\ store[u].status = "completed"

\* C13: when publishing the message failed, initiatePayout has ended with
\* QUEUE_ERROR, the request's lock is released and its transaction record is
\* marked failed.
C13_PublishFailureMarksFailed ==
  \A t \in Txs :
    (gw[t].pc = "error" /\ gw[t].err = "FAILED_TO_PUBLISH_MESSAGE") =>
      /\ ~HoldsLock(t)
      /\ store[t].status = "failed"

\* the step is settlement's release of the lock for transaction t
WorkerReleases(t) ==
  \E w \in Slots : wk[w].pc = "delLock" /\ wk[w].msg.tx = t /\ wk'[w].pc # "delLock"

\* C14: initiatePayout returns 202 without releasing the lock, and the lock of an
\* admitted payout stays held with its value until the worker releases it at that
\* payout's settlement (after which a repeat request finds the key absent).
C14_LockHeldUntilSettlement ==
  /\ [][\A t \in Txs : (gw[t].pc = "emit" /\ gw'[t].pc = "done") => lock' = lock]_vars
  /\ [][\A t \in Txs :
          (Admitted(t) /\ HoldsLock(t) /\ ~(lock'.held /\ lock'.val = gw[t].lockValue))
            => WorkerReleases(t)]_vars

\* C15: a delivery that ended with TRANSACTION_NOT_FOUND, ALREADY_PROCESSING or
\* INSUFFICIENT_BALANCE puts no further message on payout_queue.
C15_BusinessErrorNotRepublished ==
  [][\A w \in Slots :
       (wk[w].pc = "handleFailure" /\ wk[w].err \in BusinessErrors /\ wk'[w].pc = "idle")
         => queue' \subseteq queue]_vars

\* C16: when settlement finds the cached balance below the amount (its own check
\* or the script's), that step and the rest of the handler leave the cached balance
\* as it is (no deduction, no credit), the transaction is marked failed and
\* PAYOUT_FAILED is emitted.
C16_InsufficientLeavesCache ==
  /\ [][\A w \in Slots :
          (wk[w].pc \in {"getBalance", "deduct"} /\ wk'[w].err = "INSUFFICIENT_BALANCE")
            => (cache.present /\ cache.val < Amount(wk[w].msg)
                /\ cache' = cache /\ ledger' = ledger)]_vars
  /\ [][\A w \in Slots :
          (wk[w].err = "INSUFFICIENT_BALANCE" /\ wk'[w] # wk[w])
            => (cache' = cache /\ ledger' = ledger)]_vars
  /\ [][\A w \in Slots :
          (wk[w].err = "INSUFFICIENT_BALANCE" /\ wk[w].pc = "markFailed"
           /\ wk'[w] # wk[w])
            => store'[wk[w].msg.tx].status = "failed"]_vars
  /\ [][\A w \in Slots :
          (wk[w].err = "INSUFFICIENT_BALANCE" /\ wk[w].pc = "handleFailure"
           /\ wk'[w] # wk[w])
            => events'[wk[w].msg.tx] = Append(events[wk[w].msg.tx], "PAYOUT_FAILED")]_vars

\* C16 witness: a settlement that found the balance short has marked its
\* transaction failed, the cached balance still being short of the amount.
C16_Witness ==
  \E w \in Slots :
    /\ wk[w].err = "INSUFFICIENT_BALANCE" /\ wk[w].pc = "handleFailure"
    /\ store[wk[w].msg.tx].status = "failed"
    /\ cache.present /\ cache.val < Amount(wk[w].msg)

\* C17: a message whose transaction has no record changes no cached balance, no
\* transaction or user record, puts no event before any user, and is in the DLQ
\* once its deliveries have ended.
C17_PoisonMessageInvisible ==
  scenario.poison =>
    /\ cache = NoBalance
    /\ store = [t \in Txs |-> NoTx]
    /\ user.balance = InitialBalance /\ user.totalPayouts = 0
    /\ \A t \in Txs : events[t] = <<>>
    /\ (queue = {} /\ NoSettlementInProgress) => \E m \in dlq : m.tx = PoisonMsg.tx

\* C18: a handler that loaded a completed or failed transaction changes neither
\* the transaction records, nor the cached balance, nor the user document.
C18_ReplayOfSettledIsNoOp ==
  [][\A w \in Slots :
       (wk[w].pc = "markProcessing" /\ wk[w].status \in {"completed", "failed"}
        /\ wk'[w] # wk[w])
         => (store' = store /\ cache' = cache /\ user' = user)]_vars

\* C19: a handler that loads a transaction in status processing aborts with
\* ALREADY_PROCESSING, and from there on changes neither the cached balance nor
\* the transaction record.
C19_AlreadyProcessingAborts ==
  /\ [][\A w \in Slots :
          (wk[w].pc = "find" /\ store[wk[w].msg.tx].status = "processing"
           /\ wk'[w] # wk[w])
            => wk'[w].err = "ALREADY_PROCESSING"]_vars
  /\ [][\A w \in Slots :
          (wk[w].err = "ALREADY_PROCESSING" /\ wk'[w] # wk[w])
            => (cache' = cache /\ ledger' = ledger /\ store' = store)]_vars

\* C20: a completed transaction's balanceAfter is its balanceBefore minus its
\* amount.
C20_BalanceAfterIsBeforeMinusAmount ==
  \A t \in Txs :
    store[t].status = "completed"
      => store[t].balanceAfter = store[t].balanceBefore - store[t].amount

\* C21: the durable user balance is never negative, and it changes only in
\* settlement's User.updateOne, after that handler's deductBalance for the
\* transaction succeeded, to the value that deductBalance returned.
C21_UserBalanceWrittenBySettlement ==
  /\ [](user.balance >= 0)
  /\ [][user' # user =>
          \E w \in Slots :
            /\ wk[w].pc = "updateUser" /\ wk'[w].pc = "delLock"
            /\ wk[w].err = "none"
            /\ ledger[wk[w].msg.tx].deducts >= 1
            /\ user'.balance = wk[w].newBalance]_vars
  /\ [][\A w \in Slots :
          (wk'[w].newBalance # wk[w].newBalance /\ wk'[w].pc # "idle")
            => /\ wk[w].pc = "deduct"
               /\ DeductBalance(cache, Amount(wk[w].msg)).result = "ok"
               /\ wk'[w].newBalance = DeductBalance(cache, Amount(wk[w].msg)).newBalance]_vars

\* C21 witness: settlement has written a reduced durable balance.
C21_Witness ==
  /\ user.totalPayouts >= 1
  /\ user.balance < InitialBalance
  /\ \E t \in Txs : store[t].status = "completed"

\* C22: the cached balance never exceeds the user's initial balance (a
\* compensating credit is applied only where a deduction preceded it).
C22_NoUnmatchedCredit ==
  /\ cache.present => cache.val <= InitialBalance
  /\ \A t \in Txs : ledger[t].credits <= ledger[t].deducts

\* C23: addBalance(u, a) right after a successful deductBalance(u, a) leaves the
\* cached balance at its value before the deduction; on an absent key
\* deductBalance and addBalance report BALANCE_NOT_FOUND and leave it absent.
C23_AddUndoesDeduct ==
  /\ (lastCall.op = "add" /\ lastCall.prevOp = "deduct" /\ lastCall.prevCode = "ok"
       /\ lastCall.prevArg = lastCall.arg)
        => (lastCall.code = "ok" /\ lastCall.cacheAfter = lastCall.prevBefore
            /\ cache = lastCall.prevBefore)
  /\ (lastCall.op \in {"add", "deduct"} /\ ~lastCall.cacheBefore.present)
        => (lastCall.code = "BALANCE_NOT_FOUND" /\ lastCall.cacheAfter = NoBalance
            /\ cache = NoBalance)

\* C23 witness: a deduction that left a fraction of the currency unit has been
\* undone by the credit of the same amount.
C23_Witness ==
  /\ lastCall.op = "add" /\ lastCall.prevOp = "deduct" /\ lastCall.prevCode = "ok"
  /\ lastCall.prevArg = lastCall.arg
  /\ lastCall.arg % Unit # 0
  /\ cache = lastCall.prevBefore

\* the (code, HTTP status) pair the error taxonomy gives the cause of a failure
Taxonomy(message) ==
  CASE message = "CONCURRENT_REQUEST_DETECTED" -> [code |-> "CONCURRENT_REQUEST", statusCode |-> 409]
    [] message = "USER_NOT_FOUND" -> [code |-> "USER_NOT_FOUND", statusCode |-> 404]
    [] message = "USER_NOT_ACTIVE" -> [code |-> "USER_NOT_ACTIVE", statusCode |-> 403]
    [] message = "INSUFFICIENT_BALANCE" -> [code |-> "INSUFFICIENT_BALANCE", statusCode |-> 400]
    [] message = "FAILED_TO_PUBLISH_MESSAGE" -> [code |-> "QUEUE_ERROR", statusCode |-> 503]
    [] message \in RedisErrors -> [code |-> "CACHE_ERROR", statusCode |-> 503]
    [] message \in MongoErrors -> [code |-> "DATABASE_ERROR", statusCode |-> 503]
    [] OTHER -> [code |-> "INTERNAL_ERROR", statusCode |-> 500]

\* C29: every failure of initiatePayout is answered with the code and HTTP status
\* the taxonomy gives its cause.
C29_ErrorTaxonomy ==
  \A t \in Txs : gw[t].pc = "error" => gw[t].response = Taxonomy(gw[t].err)

\* the step ends a failed delivery of message m: nack without requeue, and one
\* copy with header c + 1 exactly when c is below max_retries
FailedDelivery(w) == wk[w].pc = "handleFailure" /\ wk'[w].pc = "idle"
RequeuePolicy ==
  /\ [][\A w \in Slots :
          FailedDelivery(w) =>
            LET m == wk[w].msg IN
              /\ m \in dlq'
              /\ queue' = IF m.retry < MaxRetryAttempts
                            THEN queue \cup {[tx |-> m.tx, retry |-> m.retry + 1]}
                            ELSE queue]_vars
  /\ [](\A m \in queue \cup dlq \cup {wk[w].msg : w \in Slots} :
          m.retry <= MaxRetryAttempts)

\* C30 as stated: the requeue policy, and the handler is invoked at most
\* max_retries + 1 times for one published message.
C30_AtMostMaxRetriesPlusOne ==
  /\ RequeuePolicy
  /\ [](\A t \in Txs : ledger[t].deliveries <= MaxRetryAttempts + 1)

\* C30 amended: the requeue policy, and as long as the broker has delivered no
\* message twice the handler is invoked at most max_retries + 1 times for one
\* published message.
C30_RequeuePolicy ==
  /\ RequeuePolicy
  /\ [](redelivered = 0 =>
          \A t \in Txs : ledger[t].deliveries <= MaxRetryAttempts + 1)

\* C30 witness: a message has failed with its retry budget used up, after
\* max_retries + 1 deliveries none of which was a broker redelivery.
C30_Witness ==
  \E t \in Txs :
    /\ redelivered = 0
    /\ ledger[t].deliveries = MaxRetryAttempts + 1
    /\ [tx |-> t, retry |-> MaxRetryAttempts] \in dlq
    /\ \A m \in queue : m.tx # t

\* no message is waiting and no handler is running
Drained == queue = {} /\ NoSettlementInProgress

\* C27: no failed audit write moves initiatePayout or processPayoutMessage into
\* its catch block, and in the run whose audit writes may fail an admitted
\* payout ends as it does with a sound audit log: completed, the amount deducted
\* once, the lock gone, the three events emitted, nothing dead-lettered.
C27_AuditFailureChangesNothing ==
  /\ \A t \in Txs : gw[t].err # "AUDIT_ERROR"
  /\ \A w \in Slots : wk[w].err # "AUDIT_ERROR"
  /\ \A t \in Txs :
       (scenario.audit /\ Admitted(t) /\ Drained) =>
         /\ store[t].status = "completed"
         /\ cache = [present |-> TRUE, val |-> InitialBalance - gw[t].amount]
         /\ ledger[t].deducts = 1 /\ ledger[t].credits = 0
         /\ ~HoldsLock(t)
         /\ Len(events[t]) = 3
         /\ {events[t][i] : i \in 1..3} =
              {"PAYOUT_INITIATED", "PAYOUT_PROCESSING", "PAYOUT_COMPLETED"}
         /\ dlq = {}
         /\ gw[t].response.statusCode = 202

\* C27 witness: a payout was admitted and completed although three and more of
\* the audit writes on its way failed.
C27_Witness ==
  \E t \in Txs :
    /\ scenario.audit /\ auditLog.failed >= 3
    /\ Admitted(t) /\ Drained
    /\ store[t].status = "completed"

\* C24: when PAYOUT_INITIATED is emitted for a user, every connected session
\* authenticated as that user receives it, on whichever gateway instance the
\* session is connected.
C24_InitiatedReachesEverySession ==
  [][(lastEmit' # lastEmit /\ lastEmit'.event = "PAYOUT_INITIATED") =>
       AuthenticatedAs(lastEmit'.userId) \subseteq lastEmit'.recipients]_vars

\* C25: a status event the worker publishes for a user is received by every
\* connected session authenticated as that user and by no session authenticated
\* as a different user.
C25_RelayedToExactlyTheUsersSessions ==
  [][(lastEmit' # lastEmit /\ lastEmit'.event \in RelayedEvents) =>
       /\ AuthenticatedAs(lastEmit'.userId) \subseteq lastEmit'.recipients
       /\ \A s \in lastEmit'.recipients :
            sess[s].userId \in {NoUserId, lastEmit'.userId}]_vars

\* C26: on every gateway instance the registry maps a user to exactly the
\* connected sessions of that instance authenticated as that user, and no user
\* maps to an empty set.
C26_RegistryIsConnectedAuthenticatedSessions ==
  \A g \in Gateways, u \in Users :
    /\ Registered(g, u) = {s \in AuthenticatedAs(u) : sess[s].gateway = g}
    /\ u \in DOMAIN clients[g] => clients[g][u] # {}
    /\ IsUserConnected(g, u) <=> (\E s \in AuthenticatedAs(u) : sess[s].gateway = g)

\* a request was answered in this step
Answered ==
  /\ \A k \in Keys \cup {GlobalKey} : rl'[k] >= rl[k]
  /\ rl' # rl \/ lastResponse' # lastResponse

\* the answered request carried a userId, and its key had counted
\* UserRateLimitMax hits in its window when it arrived
OverTheUserLimit(r) == r.over /\ \E u \in Users : r.key = KeyGenerator(u)

\* C28 as stated: at most UserRateLimitMax requests with the same userId reach
\* the controller in one window, and every request that arrives when its
\* userId already counts UserRateLimitMax hits is answered 429
\* USER_RATE_LIMIT_EXCEEDED.
C28_EleventhAnsweredUserRateLimit ==
  /\ \A k \in Keys : reached[k] <= UserRateLimitMax
  /\ OverTheUserLimit(lastResponse) =>
       lastResponse.statusCode = 429 /\ lastResponse.code = "USER_RATE_LIMIT_EXCEEDED"

\* C28: at most UserRateLimitMax requests with the same userId reach the
\* controller in one window; a request that arrives when its userId already
\* counts UserRateLimitMax hits is answered 429, with USER_RATE_LIMIT_EXCEEDED
\* unless the global limiter of the client address answered first with
\* RATE_LIMIT_EXCEEDED, and it reaches no controller and leaves lock,
\* transactions and queue alone.
C28_UserRateLimit ==
  [][/\ \A k \in Keys : reached'[k] <= UserRateLimitMax
     /\ (Answered /\ OverTheUserLimit(lastResponse')) =>
          /\ lastResponse'.statusCode = 429
          /\ lastResponse'.code \in {"USER_RATE_LIMIT_EXCEEDED", "RATE_LIMIT_EXCEEDED"}
          /\ lastResponse'.code = "RATE_LIMIT_EXCEEDED" => rl'[GlobalKey] > RateLimitMax
          /\ UNCHANGED <<reached, lock, store, queue, gw>>]_vars

\* C28 witness: a user's eleventh request in the window was answered 429 after
\* ten reached the controller.
C28_Witness ==
  \E u \in Users :
    /\ rl[KeyGenerator(u)] = UserRateLimitMax + 1
    /\ reached[KeyGenerator(u)] = UserRateLimitMax
    /\ lastResponse = [key |-> KeyGenerator(u), code |-> "USER_RATE_LIMIT_EXCEEDED",
                       statusCode |-> 429, over |-> TRUE]

\* the handler of slot w publishes PAYOUT_COMPLETED in this step
EmitsCompleted(w) == wk[w].pc = "emitCompleted" /\ wk'[w].pc = "idle"

\* C31: whenever PAYOUT_COMPLETED with newBalance b is published, the
\* transaction is completed with balanceAfter b and the user's durable balance
\* is b.
C31_CompletedCarriesWrittenBalance ==
  [][\A w \in Slots :
       EmitsCompleted(w) =>
         /\ store[wk[w].msg.tx].status = "completed"
         /\ store[wk[w].msg.tx].balanceAfter = wk[w].newBalance
         /\ user.balance = wk[w].newBalance]_vars

\* C32: an intake that writes the cached balance writes the user's durable
\* balance, takes that value as balanceBefore and changes no cached balance
\* that is present; an intake that finds a cached balance leaves it and takes
\* the cached value.
C32_ColdCacheRehydratedOnly ==
  [][\A t \in Txs :
       /\ (gw[t].pc = "sync" /\ gw'[t].pc # "sync") =>
            /\ cache.present => cache' = cache
            /\ cache' = [present |-> TRUE, val |-> user.balance]
            /\ gw'[t].balance = user.balance
       /\ (gw[t].pc = "getBalance" /\ gw'[t].pc = "hasSufficient") =>
            /\ cache.present /\ cache' = cache
            /\ gw'[t].balance = cache.val]_vars

\* acquireWithRetry of request t calls acquire in this step
TriesLock(t) == gw[t].pc = "acquire" /\ gw'[t] # gw[t]

\* C33: acquireWithRetry calls acquire at most LockRetryCount times; a call that
\* finds the key absent installs its lock value and ends the loop with that
\* value; a call that finds the key present leaves it alone; the loop returns
\* null only after LockRetryCount calls that found the key present, and then
\* the request holds no lock and is answered CONCURRENT_REQUEST.
C33_AcquireWithRetry ==
  [][\A t \in Txs :
       /\ gw'[t].attempts <= LockRetryCount
       /\ (TriesLock(t) /\ ~lock.held) =>
            /\ gw'[t].lockValue = GenerateLockValue(t, gw[t].attempts)
            /\ lock'.held /\ lock'.val = gw'[t].lockValue
            /\ gw'[t].pc = "findUser" /\ gw'[t].attempts = gw[t].attempts
       /\ (TriesLock(t) /\ lock.held) =>
            /\ lock' = lock
            /\ gw'[t].lockValue = 0
            /\ gw'[t].attempts = gw[t].attempts + 1
            /\ gw'[t].pc = (IF gw'[t].attempts = LockRetryCount THEN "catch" ELSE "acquire")
       /\ gw'[t].err = "CONCURRENT_REQUEST_DETECTED" =>
            /\ gw'[t].attempts = LockRetryCount
            /\ gw'[t].lockValue = 0
            /\ gw'[t].pc = "error" =>
                 gw'[t].response = [code |-> "CONCURRENT_REQUEST", statusCode |-> 409]
       /\ (gw'[t].pc \in {"catch", "error"} /\ gw'[t].attempts = LockRetryCount) =>
            gw'[t].err = "CONCURRENT_REQUEST_DETECTED"]_vars

\* C33 witness: a request was answered CONCURRENT_REQUEST after its third
\* acquire found the key present and holds no lock.
C33_Witness ==
  \E t \in Txs :
    /\ gw[t].pc = "error" /\ gw[t].err = "CONCURRENT_REQUEST_DETECTED"
    /\ gw[t].attempts = LockRetryCount
    /\ gw[t].response.code = "CONCURRENT_REQUEST"
    /\ lock.held /\ ~HoldsLock(t)

\* the messages in payout_queue and those a handler is working on
Messages == queue \cup {wk[w].msg : w \in {v \in Slots : wk[v].pc # "idle"}}

\* the errors initiatePayout throws before Transaction.create has inserted
RejectedBeforeInsert(t) == gw[t].err \notin {"none", "FAILED_TO_PUBLISH_MESSAGE"}

TerminalEvents == {"PAYOUT_COMPLETED", "PAYOUT_FAILED"}
WorkerEvents == TerminalEvents \cup {"PAYOUT_PROCESSING"}

\* C36: once PAYOUT_FAILED or PAYOUT_COMPLETED has been published for a
\* transaction of the store, no further PAYOUT_PROCESSING, PAYOUT_FAILED or PAYOUT_COMPLETED
\* is published for it.
C36_OneTerminalEvent ==
  \A t \in {u \in Txs : store[u].status # "none"} :
    \A i \in 1..Len(events[t]), j \in 1..Len(events[t]) :
      (i < j /\ events[t][i] \in TerminalEvents) => events[t][j] \notin WorkerEvents

\* the user's transactions with status completed
Completed == {t \in Txs : store[t].status = "completed"}

\* C38: whenever no settlement is in progress and the cached balance is present,
\* the user's durable balance equals the cached balance, and totalPayouts and
\* totalPayoutAmount are the number and the summed amount of the completed
\* transactions.
C38_DurableMatchesCache ==
  (NoSettlementInProgress /\ cache.present) =>
    /\ user.balance = cache.val
    /\ user.totalPayouts = Cardinality(Completed)
    /\ user.totalPayoutAmount = SumCompleted

\* C39: a message of a payout is in payout_dlq only if its delivery failed with
\* the retry budget exhausted, and never while a retry copy of it is queued or being
\* handled.
C39_DeadLetterOnlyWhenExhausted ==
  \A m \in {n \in dlq : store[n.tx].status # "none"} :
    /\ m.retry >= MaxRetryAttempts
    /\ \A n \in Messages : n.tx # m.tx

\* every request, handler and query has finished and no message is waiting
AllFinished ==
  /\ Drained
  /\ \A t \in Txs : gw[t].pc \in {"idle", "done", "error"}
  /\ qry.pc \in {"idle", "done"}

\* C37: in a run with a balance query beside an intake and its settlement, once
\* all of them have finished the cached balance is the initial balance minus the
\* amounts of the completed transactions.
C37_QueryLosesNoDeduction ==
  (scenario.query /\ AllFinished /\ cache.present) =>
    cache.val = InitialBalance - SumCompleted

\* handleMessage has finished with the delivered message
Decided == mc.pc \in {"settled", "idle"} /\ mc.msg # NoDelivery

\* C35: for every delivered message the consumer issues exactly one
\* acknowledgement decision, at no time more than one: an ack if and only if
\* the handler returned normally, otherwise one nack, never with requeue,
\* whatever the body, the headers and the handler's outcome.
C35_OneAckDecision ==
  /\ mc.acks + mc.nacks <= 1
  /\ mc.requeues = 0
  /\ mc.acks = 1 => mc.returned
  /\ Decided =>
       /\ mc.acks + mc.nacks = 1
       /\ mc.acks = 1 <=> mc.returned
       /\ mc.nacks = 1 <=> ~mc.returned

\* a message with undefined headers was nacked once from handleFailure's
\* catch block, without the handler having run
C35_Witness ==
  /\ Decided
  /\ mc.msg.body = "object"
  /\ ~mc.msg.headers.defined
  /\ mc.nacks = 1 /\ mc.acks = 0 /\ ~mc.returned

\* no copy of the payout's message is queued or being handled
OffTheQueue(t) == \A m \in Messages : m.tx # t

====
